---- MODULE Spec2Model ----
(***************************************************************************)
(* Model of process_fanuc_ls.py: the two-pass annotator process_ls_file,   *)
(* the batch loop of main() and the directory selection / cleaning that    *)
(* precedes it.                                                            *)
(*                                                                         *)
(* A text line is a sequence of tokens.  Whitespace between tokens is not  *)
(* represented (every regex of the source is whitespace tolerant between   *)
(* tokens).  A digit run is one token, so "00042" and "42" are different   *)
(* identifiers, as they are different strings for the source.              *)
(* Sequences are 1-based: the source's index i = 0 is i = 1 here.          *)
(***************************************************************************)
EXTENDS Integers, Sequences, FiniteSets, TLC

(***************************************************************************)
(* Bounds of the model.                                                    *)
(***************************************************************************)
MaxLen == 4      \* free documents: any arrangement of lines, up to MaxLen
MaxBody == 4     \* program documents: lines between /MN and /POS
MaxDecls == 1    \* program documents: lines after /POS

(***************************************************************************)
(* Tokens and the lines the inputs are drawn from.                         *)
(***************************************************************************)
Nums == {"1", "2", "3", "5", "7", "12", "42", "00042"}      \* \d+ tokens
SlashTokens == {"/MN", "/POS", "/END"}         \* tokens starting with '/'

LineMN == <<"/MN">>
LinePOS == <<"/POS">>
LineEND == <<"/END">>
\* 1:  !T1-00042 ;
CommentA == <<"1", ":", "!T", "1", "-", "00042", ";">>
\* 3:  !T2-7 ;
CommentB == <<"3", ":", "!T", "2", "-", "7", ";">>
\* :  !T2-7 ;          (no numeric label before the colon)
CommentU == <<":", "!T", "2", "-", "7", ";">>
\* 2:  L P[12] 100mm/sec CNT100
Move12 == <<"2", ":", "L", "P[", "12", "]", "100mm/sec", "CNT100">>
\* J P[5] 100% FINE
Move5 == <<"J", "P[", "5", "]", "100%", "FINE">>
\* J P[5:7] 100% L P[12] 100mm/sec    (first P[...] annotated, a later one not)
MoveSkip == <<"J", "P[", "5", ":", "7", "]", "100%", "L", "P[", "12", "]", "100mm/sec">>
\* P[12]{
Decl12 == <<"P[", "12", "]", "{">>
\* P[12:"7"]{ P[5]{                   (first P[...] annotated, a later one not)
DeclSkip == <<"P[", "12", ":", "\"", "7", "\"", "]", "{", "P[", "5", "]", "{">>
\* GP1 X = 1.0 mm
Other == <<"GP1", "X", "=", "1.0", "mm">>

\* free documents: every arrangement of these lines
FreeLines ==
  {LineMN, LinePOS, LineEND, CommentA, CommentU, Move12, Decl12, Other}
\* program documents: /MN, lines of BodyLines, /POS, lines of DeclLines
BodyLines == {CommentA, CommentB, Move12, Move5, MoveSkip}
DeclLines == {Decl12, DeclSkip}

SeqsUpTo(S, n) == UNION {[1..k -> S] : k \in 0..n}

FreeDocs == SeqsUpTo(FreeLines, MaxLen)
ProgDocs ==
  {<<LineMN>> \o b \o <<LinePOS>> \o d :
     b \in SeqsUpTo(BodyLines, MaxBody), d \in SeqsUpTo(DeclLines, MaxDecls)}
Docs == FreeDocs \cup ProgDocs
\* the example of the specification
SpecExample == <<LineMN, CommentA, Move12, LinePOS, Decl12>>

(***************************************************************************)
(* Small helpers.                                                          *)
(***************************************************************************)
Min(S) == CHOOSE x \in S : \A y \in S : x <= y
Max(S) == CHOOSE x \in S : \A y \in S : x >= y
NoMatch == "<none>"

(***************************************************************************)
(* The patterns of the source, on token sequences.                         *)
(***************************************************************************)
\* line.strip() == marker
StripEq(line, marker) == line = <<marker>>
\* line.strip().startswith('/')
StartsSlash(line) == Len(line) > 0 /\ line[1] \in SlashTokens

\* positions where  \d+\s*:\s*!\s*T  matches
CommentStarts(line) ==
  {q \in 1..Len(line) :
     q + 2 <= Len(line) /\ line[q] \in Nums /\ line[q+1] = ":" /\ line[q+2] = "!T"}
\* positions after start q where  -(\d+)\s*;  matches
CommentEnds(line, q) ==
  {p \in (q+3)..Len(line) :
     p + 2 <= Len(line) /\ line[p] = "-" /\ line[p+1] \in Nums /\ line[p+2] = ";"}
\* variant: the pattern with the label made optional, (\d+\s*)?:\s*!\s*T...
MatchComment_optlabel(line) ==
  LET starts == {q \in 1..Len(line) :
                   q + 1 <= Len(line) /\ line[q] = ":" /\ line[q+1] = "!T"}
      ends(q) == {p \in (q+2)..Len(line) :
                    p + 2 <= Len(line) /\ line[p] = "-" /\ line[p+1] \in Nums
                      /\ line[p+2] = ";"}
      qs == {q \in starts : ends(q) # {}}
  IN  IF qs = {} THEN NoMatch
      ELSE line[Max(ends(Min(qs))) + 1]
\* re.search(r'\d+\s*:\s*!\s*T.*-(\d+)\s*;', line): group(1), or NoMatch
MatchComment(line) ==
  LET qs == {q \in CommentStarts(line) : CommentEnds(line, q) # {}}
  IN  IF qs = {} THEN NoMatch
      ELSE line[Max(CommentEnds(line, Min(qs))) + 1]

\* positions where  ([LJ])\s+P\s*\[\s*(\d+)\s*\]  matches
MovementStarts(line) ==
  {m \in 1..Len(line) :
     m + 3 <= Len(line) /\ line[m] \in {"L", "J"} /\ line[m+1] = "P["
       /\ line[m+2] \in Nums /\ line[m+3] = "]"}
\* re.search(r'(\d+\s*:)?\s*([LJ])\s+P\s*\[\s*(\d+)\s*\]', line): group(3), or NoMatch
MatchMovement(line) ==
  IF MovementStarts(line) = {} THEN NoMatch
  ELSE line[Min(MovementStarts(line)) + 2]

\* re.search(r'P\s*\[([^\]]+)\]', line): the positions of group(1), {} if no match
BracketGroup(line) ==
  LET closes(b) == {e \in (b+1)..Len(line) : line[e] = "]"}
      bs == {b \in 1..Len(line) :
               line[b] = "P[" /\ closes(b) # {} /\ Min(closes(b)) >= b + 2}
  IN  IF bs = {} THEN {}
      ELSE (Min(bs) + 1)..(Min(closes(Min(bs))) - 1)
\* ':' in match.group(1)
BracketHasColon(line) == \E k \in BracketGroup(line) : line[k] = ":"

\* variant: the identifier inserted as a number, without its leading zeros
FormatMN_intval(point_num, spot_id) ==
  <<"P[", point_num, ":", IF spot_id = "00042" THEN "42" ELSE spot_id, "]">>
\* f'P[{point_num}:{spot_id}]'
FormatMN(point_num, spot_id) == <<"P[", point_num, ":", spot_id, "]">>
\* f'P[{point_num}:"{spot_id}"]\\1'
FormatPOS(point_num, spot_id) ==
  <<"P[", point_num, ":", "\"", spot_id, "\"", "]", "{">>

\* re.sub(pattern, repl, line) for a pattern that is the token sequence pat
RECURSIVE SubFrom(_, _, _, _)
SubFrom(line, pat, repl, k) ==
  IF k > Len(line) THEN <<>>
  ELSE IF k + Len(pat) - 1 <= Len(line)
          /\ SubSeq(line, k, k + Len(pat) - 1) = pat
       THEN repl \o SubFrom(line, pat, repl, k + Len(pat))
       ELSE <<line[k]>> \o SubFrom(line, pat, repl, k + 1)

\* re.sub(r'P\s*\[\s*' + point_num + r'\s*\]', f'P[{point_num}:{spot_id}]', next_line)
SubMN(line, point_num, spot_id) ==
  SubFrom(line, <<"P[", point_num, "]">>, FormatMN(point_num, spot_id), 1)
\* re.search(r'P\s*\[\s*' + point_num + r'\s*\]\s*\{', line)
SearchPOS(line, point_num) ==
  \E m \in 1..Len(line) :
     m + 3 <= Len(line) /\ SubSeq(line, m, m + 3) = <<"P[", point_num, "]", "{">>
\* re.sub(r'P\s*\[\s*' + point_num + r'\s*\]\s*(\{)', f'P[{point_num}:"{spot_id}"]\\1', line)
SubPOS(line, point_num, spot_id) ==
  SubFrom(line, <<"P[", point_num, "]", "{">>, FormatPOS(point_num, spot_id), 1)

(***************************************************************************)
(* point_modifications: a dict, i.e. key/value pairs in insertion order.   *)
(***************************************************************************)
DictKeys(d) == {d[k][1] : k \in 1..Len(d)}
\* variant: an existing key keeps its first value
DictSet_keepfirst(d, key, value) ==
  IF key \in DictKeys(d) THEN d ELSE Append(d, <<key, value>>)
\* d[key] = value: an existing key keeps its place and takes the new value
DictSet(d, key, value) ==
  IF key \in DictKeys(d)
  THEN [k \in 1..Len(d) |-> IF d[k][1] = key THEN <<key, value>> ELSE d[k]]
  ELSE Append(d, <<key, value>>)
\* the first item of d.items() whose key passes the search on line, 0 if none
FirstItem(d, line) ==
  LET ks == {k \in 1..Len(d) : SearchPOS(line, d[k][1])}
  IN  IF ks = {} THEN 0 ELSE Min(ks)

VARIABLES
  pc,                   \* position in process_ls_file
  run,                  \* 1 for the first run, 2 for the run on its output
  lines,                \* f.readlines()
  point_modifications,
  modified_lines,
  changes_mn,
  skipped_mn,
  in_mn_block,
  i,
  in_pos_block,
  final_lines,
  changes_pos,
  skipped_pos,
  j,                    \* position of the for loop over modified_lines
  prev,                 \* lines and returned statistics of the previous run
  \* main(): the loop over sorted(ls_files)
  bpc,                  \* position in the loop
  ls_files,             \* sorted(ls_files): content and file-system fault of each
  f,                    \* position of the for loop over sorted(ls_files)
  total_changes_mn,
  total_changes_pos,
  total_skipped_mn,
  total_skipped_pos,
  results,
  \* main(): choice of the directories and cleaning
  mpc,                  \* position in main() / select_directories_gui()
  argv,                 \* sys.argv[1:]
  tkinter_available,    \* TKINTER_AVAILABLE
  input_dir,
  output_dir,
  silent_mode,
  dirs,                 \* file system: the directories that exist
  ls_in,                \* file system: the directories holding a .ls file
  erased                \* file system: the directories whose .ls file was removed

vars ==
  <<pc, run, lines, point_modifications, modified_lines, changes_mn,
    skipped_mn, in_mn_block, i, in_pos_block, final_lines, changes_pos,
    skipped_pos, j, prev, bpc, ls_files, f, total_changes_mn,
    total_changes_pos, total_skipped_mn, total_skipped_pos, results, mpc,
    argv, tkinter_available, input_dir, output_dir, silent_mode, dirs, ls_in,
    erased>>

annotatorVars ==
  <<pc, lines, point_modifications, modified_lines, changes_mn, skipped_mn,
    in_mn_block, i, in_pos_block, final_lines, changes_pos, skipped_pos, j>>
batchVars ==
  <<bpc, ls_files, f, total_changes_mn, total_changes_pos, total_skipped_mn,
    total_skipped_pos, results>>
mainVars ==
  <<mpc, argv, tkinter_available, input_dir, output_dir, silent_mode, dirs,
    ls_in, erased>>

Stats ==
  [changes_mn |-> changes_mn, changes_pos |-> changes_pos,
   skipped_mn |-> skipped_mn, skipped_pos |-> skipped_pos]
NoPrev == [input |-> <<>>, output |-> <<>>, stats |-> [changes_mn |-> 0,
           changes_pos |-> 0, skipped_mn |-> 0, skipped_pos |-> 0]]

\* process_ls_file up to the first while test, on the lines doc
Begin(doc) ==
  /\ lines' = doc
  /\ point_modifications' = <<>>
  /\ modified_lines' = <<>>
  /\ changes_mn' = 0
  /\ skipped_mn' = 0
  /\ in_mn_block' = FALSE
  /\ i' = 1
  /\ in_pos_block' = FALSE
  /\ final_lines' = <<>>
  /\ changes_pos' = 0
  /\ skipped_pos' = 0
  /\ j' = 1
  /\ pc' = "pass1"

\* no batch loop is running
BatchIdle ==
  /\ bpc = "none"
  /\ ls_files = <<>>
  /\ f = 1
  /\ total_changes_mn = 0
  /\ total_changes_pos = 0
  /\ total_skipped_mn = 0
  /\ total_skipped_pos = 0
  /\ results = <<>>
\* main() is not choosing directories
MainIdle ==
  /\ mpc = "none"
  /\ argv = <<>>
  /\ tkinter_available = TRUE
  /\ input_dir = ""
  /\ output_dir = ""
  /\ silent_mode = FALSE
  /\ dirs = {}
  /\ ls_in = {}
  /\ erased = {}
\* process_ls_file is not running
AnnotatorIdle ==
  /\ lines = <<>>
  /\ point_modifications = <<>>
  /\ modified_lines = <<>>
  /\ changes_mn = 0
  /\ skipped_mn = 0
  /\ in_mn_block = FALSE
  /\ i = 1
  /\ in_pos_block = FALSE
  /\ final_lines = <<>>
  /\ changes_pos = 0
  /\ skipped_pos = 0
  /\ j = 1
  /\ pc = "idle"
  /\ run = 1
  /\ prev = NoPrev

Init ==
  /\ BatchIdle /\ MainIdle
  /\ lines \in Docs
  /\ point_modifications = <<>>
  /\ modified_lines = <<>>
  /\ changes_mn = 0
  /\ skipped_mn = 0
  /\ in_mn_block = FALSE
  /\ i = 1
  /\ in_pos_block = FALSE
  /\ final_lines = <<>>
  /\ changes_pos = 0
  /\ skipped_pos = 0
  /\ j = 1
  /\ pc = "pass1"
  /\ run = 1
  /\ prev = NoPrev

(***************************************************************************)
(* Pass 1: the while loop over lines.                                      *)
(***************************************************************************)
\* in_mn_block after the end-of-block test on the current line
MNAfterClose(line) ==
  IF in_mn_block /\ StartsSlash(line) /\ ~StripEq(line, "/MN")
  THEN FALSE ELSE in_mn_block

\* variant: the pair branches without the test of in_mn_block
MNPair_anywhere(line) ==
  /\ MatchComment(line) # NoMatch
  /\ i + 1 <= Len(lines)
  /\ MatchMovement(lines[i + 1]) # NoMatch
\* the conditions that lead into the pair branches
MNPair(line) ==
  /\ MNAfterClose(line)
  /\ MatchComment(line) # NoMatch
  /\ i + 1 <= Len(lines)
  /\ MatchMovement(lines[i + 1]) # NoMatch

P1Frame == UNCHANGED <<run, lines, in_pos_block, final_lines, changes_pos,
                       skipped_pos, j, prev, batchVars, mainVars>>

\* the line is /MN: the block starts
MNOpen ==
  /\ pc = "pass1" /\ i <= Len(lines)
  /\ StripEq(lines[i], "/MN")
  /\ in_mn_block' = TRUE
  /\ modified_lines' = Append(modified_lines, lines[i])
  /\ i' = i + 1
  /\ UNCHANGED <<pc, point_modifications, changes_mn, skipped_mn>>
  /\ P1Frame

\* variant: the already annotated pair is recorded in the mapping too
MNSkip_records ==
  /\ pc = "pass1" /\ i <= Len(lines)
  /\ ~StripEq(lines[i], "/MN")
  /\ MNPair(lines[i])
  /\ BracketHasColon(lines[i + 1])
  /\ point_modifications' =
       DictSet(point_modifications, MatchMovement(lines[i + 1]), MatchComment(lines[i]))
  /\ modified_lines' = modified_lines \o <<lines[i], lines[i + 1]>>
  /\ skipped_mn' = skipped_mn + 1
  /\ i' = i + 2
  /\ in_mn_block' = MNAfterClose(lines[i])
  /\ UNCHANGED <<pc, changes_mn>>
  /\ P1Frame
\* the pair is already annotated: both lines pass, skipped_mn counts it
MNSkip ==
  /\ pc = "pass1" /\ i <= Len(lines)
  /\ ~StripEq(lines[i], "/MN")
  /\ MNPair(lines[i])
  /\ BracketHasColon(lines[i + 1])
  /\ modified_lines' = modified_lines \o <<lines[i], lines[i + 1]>>
  /\ skipped_mn' = skipped_mn + 1
  /\ i' = i + 2
  /\ in_mn_block' = MNAfterClose(lines[i])
  /\ UNCHANGED <<pc, point_modifications, changes_mn>>
  /\ P1Frame

\* variant: only the rewritten movement line is appended
MNRewrite_dropcomment ==
  /\ pc = "pass1" /\ i <= Len(lines)
  /\ ~StripEq(lines[i], "/MN")
  /\ MNPair(lines[i])
  /\ ~BracketHasColon(lines[i + 1])
  /\ LET spot_id == MatchComment(lines[i])
         point_num == MatchMovement(lines[i + 1])
     IN  /\ point_modifications' = DictSet(point_modifications, point_num, spot_id)
         /\ modified_lines' =
              Append(modified_lines, SubMN(lines[i + 1], point_num, spot_id))
  /\ changes_mn' = changes_mn + 1
  /\ i' = i + 2
  /\ in_mn_block' = MNAfterClose(lines[i])
  /\ UNCHANGED <<pc, skipped_mn>>
  /\ P1Frame
\* the pair is recorded and the movement line rewritten
MNRewrite ==
  /\ pc = "pass1" /\ i <= Len(lines)
  /\ ~StripEq(lines[i], "/MN")
  /\ MNPair(lines[i])
  /\ ~BracketHasColon(lines[i + 1])
  /\ LET spot_id == MatchComment(lines[i])
         point_num == MatchMovement(lines[i + 1])
     IN  /\ point_modifications' = DictSet(point_modifications, point_num, spot_id)
         /\ modified_lines' =
              modified_lines \o <<lines[i], SubMN(lines[i + 1], point_num, spot_id)>>
  /\ changes_mn' = changes_mn + 1
  /\ i' = i + 2
  /\ in_mn_block' = MNAfterClose(lines[i])
  /\ UNCHANGED <<pc, skipped_mn>>
  /\ P1Frame

\* variant: a comment line without movement line takes the next line with it
MNEmit_skipnext ==
  /\ pc = "pass1" /\ i <= Len(lines)
  /\ ~StripEq(lines[i], "/MN")
  /\ ~MNPair(lines[i])
  /\ in_mn_block' = MNAfterClose(lines[i])
  /\ IF MNAfterClose(lines[i]) /\ MatchComment(lines[i]) # NoMatch
        /\ i + 1 <= Len(lines)
     THEN /\ modified_lines' = modified_lines \o <<lines[i], lines[i + 1]>>
          /\ i' = i + 2
     ELSE /\ modified_lines' = Append(modified_lines, lines[i])
          /\ i' = i + 1
  /\ UNCHANGED <<pc, point_modifications, changes_mn, skipped_mn>>
  /\ P1Frame
\* every other line is appended as it is
MNEmit ==
  /\ pc = "pass1" /\ i <= Len(lines)
  /\ ~StripEq(lines[i], "/MN")
  /\ ~MNPair(lines[i])
  /\ in_mn_block' = MNAfterClose(lines[i])
  /\ modified_lines' = Append(modified_lines, lines[i])
  /\ i' = i + 1
  /\ UNCHANGED <<pc, point_modifications, changes_mn, skipped_mn>>
  /\ P1Frame

\* the while loop ends; pass 2 starts with its own flag, list and counters
Pass1End ==
  /\ pc = "pass1" /\ i > Len(lines)
  /\ pc' = "pass2"
  /\ in_pos_block' = FALSE
  /\ final_lines' = <<>>
  /\ changes_pos' = 0
  /\ skipped_pos' = 0
  /\ j' = 1
  /\ UNCHANGED <<run, lines, point_modifications, modified_lines, changes_mn,
                 skipped_mn, in_mn_block, i, prev, batchVars, mainVars>>

(***************************************************************************)
(* Pass 2: the for loop over modified_lines.                               *)
(***************************************************************************)
POSAfterClose(line) ==
  IF in_pos_block /\ StartsSlash(line) /\ ~StripEq(line, "/POS")
  THEN FALSE ELSE in_pos_block

\* the inner for loop reaches an item whose pattern is found in the line
POSFound(line) ==
  POSAfterClose(line) /\ FirstItem(point_modifications, line) # 0

P2Frame == UNCHANGED <<run, lines, point_modifications, modified_lines,
                       changes_mn, skipped_mn, in_mn_block, i, prev, batchVars,
                       mainVars>>

POSOpen ==
  /\ pc = "pass2" /\ j <= Len(modified_lines)
  /\ StripEq(modified_lines[j], "/POS")
  /\ in_pos_block' = TRUE
  /\ final_lines' = Append(final_lines, modified_lines[j])
  /\ j' = j + 1
  /\ UNCHANGED <<pc, changes_pos, skipped_pos>>
  /\ P2Frame

POSSkip ==
  /\ pc = "pass2" /\ j <= Len(modified_lines)
  /\ ~StripEq(modified_lines[j], "/POS")
  /\ POSFound(modified_lines[j])
  /\ BracketHasColon(modified_lines[j])
  /\ final_lines' = Append(final_lines, modified_lines[j])
  /\ skipped_pos' = skipped_pos + 1
  /\ in_pos_block' = POSAfterClose(modified_lines[j])
  /\ j' = j + 1
  /\ UNCHANGED <<pc, changes_pos>>
  /\ P2Frame

POSRewrite ==
  /\ pc = "pass2" /\ j <= Len(modified_lines)
  /\ ~StripEq(modified_lines[j], "/POS")
  /\ POSFound(modified_lines[j])
  /\ ~BracketHasColon(modified_lines[j])
  /\ LET item == point_modifications[FirstItem(point_modifications, modified_lines[j])]
     IN  final_lines' =
           Append(final_lines, SubPOS(modified_lines[j], item[1], item[2]))
  /\ changes_pos' = changes_pos + 1
  /\ in_pos_block' = POSAfterClose(modified_lines[j])
  /\ j' = j + 1
  /\ UNCHANGED <<pc, skipped_pos>>
  /\ P2Frame

POSEmit ==
  /\ pc = "pass2" /\ j <= Len(modified_lines)
  /\ ~StripEq(modified_lines[j], "/POS")
  /\ ~POSFound(modified_lines[j])
  /\ final_lines' = Append(final_lines, modified_lines[j])
  /\ in_pos_block' = POSAfterClose(modified_lines[j])
  /\ j' = j + 1
  /\ UNCHANGED <<pc, changes_pos, skipped_pos>>
  /\ P2Frame

\* open(output_path, 'w') raises for the file the batch loop is at
WriteRaises == bpc = "call" /\ ls_files[f].fault = "unwritable"

\* the for loop ends, final_lines is written and the statistics returned
WriteOutput ==
  /\ pc = "pass2" /\ j > Len(modified_lines)
  /\ ~WriteRaises
  /\ pc' = "done"
  /\ UNCHANGED <<run, lines, point_modifications, modified_lines, changes_mn,
                 skipped_mn, in_mn_block, i, in_pos_block, final_lines,
                 changes_pos, skipped_pos, j, prev, batchVars, mainVars>>

\* process_ls_file is run again on the file the previous run wrote
Rerun ==
  /\ pc = "done" /\ run = 1
  /\ run' = run + 1
  /\ prev' = [input |-> lines, output |-> final_lines, stats |-> Stats]
  /\ Begin(final_lines)
  /\ UNCHANGED <<batchVars, mainVars>>

Next ==
  \/ MNOpen \/ MNSkip \/ MNRewrite \/ MNEmit \/ Pass1End
  \/ POSOpen \/ POSSkip \/ POSRewrite \/ POSEmit \/ WriteOutput
  \/ Rerun

Spec == Init /\ [][Next]_vars

(***************************************************************************)
(* main(): the loop over sorted(ls_files).  A file of the list is its      *)
(* content and the file-access fault it meets: none, its input cannot be   *)
(* opened, its output cannot be opened, or the directory of its output     *)
(* cannot be created.                                                      *)
(***************************************************************************)
MaxFiles == 3

Faults == {"none", "unreadable", "unwritable", "mkdir"}
BatchDocA == SpecExample
BatchDocB ==
  <<LineMN, CommentA, Move5, CommentB, MoveSkip, Other, LinePOS, DeclSkip, Other>>
BatchFiles == [doc : {BatchDocA, BatchDocB}, fault : Faults]

InitBatch ==
  /\ AnnotatorIdle /\ MainIdle
  /\ ls_files \in SeqsUpTo(BatchFiles, MaxFiles) \ {<<>>}
  /\ bpc = "loop"
  /\ f = 1
  /\ total_changes_mn = 0
  /\ total_changes_pos = 0
  /\ total_skipped_mn = 0
  /\ total_skipped_pos = 0
  /\ results = <<>>

Result(estado, modificados, omitidos) ==
  [archivo |-> f, modificados |-> modificados, omitidos |-> omitidos,
   estado |-> estado]
Totals ==
  <<total_changes_mn, total_changes_pos, total_skipped_mn, total_skipped_pos>>

\* output_file.parent.mkdir(...) raises: it stands before the try statement,
\* the exception leaves the loop and main()
BatchMkdirRaises ==
  /\ bpc = "loop" /\ f <= Len(ls_files)
  /\ ls_files[f].fault = "mkdir"
  /\ bpc' = "crashed"
  /\ UNCHANGED <<ls_files, f, Totals, results>>
  /\ UNCHANGED <<annotatorVars, run, prev, mainVars>>

\* process_ls_file is entered and open(input_path) raises: the except
\* clause records the error
BatchReadRaises ==
  /\ bpc = "loop" /\ f <= Len(ls_files)
  /\ ls_files[f].fault = "unreadable"
  /\ results' = Append(results, Result("ERROR", 0, 0))
  /\ f' = f + 1
  /\ UNCHANGED <<bpc, ls_files, Totals>>
  /\ UNCHANGED <<annotatorVars, run, prev, mainVars>>

\* process_ls_file is entered and reads the lines of the file
BatchCall ==
  /\ bpc = "loop" /\ f <= Len(ls_files)
  /\ ls_files[f].fault \in {"none", "unwritable"}
  /\ Begin(ls_files[f].doc)
  /\ bpc' = "call"
  /\ UNCHANGED <<ls_files, f, Totals, results>>
  /\ UNCHANGED <<run, prev, mainVars>>

\* open(output_path, 'w') raises after both passes: the except clause
\* records the error, the statistics of the file are lost
BatchWriteRaises ==
  /\ bpc = "call"
  /\ pc = "pass2" /\ j > Len(modified_lines)
  /\ WriteRaises
  /\ results' = Append(results, Result("ERROR", 0, 0))
  /\ f' = f + 1
  /\ bpc' = "loop"
  /\ pc' = "idle"
  /\ UNCHANGED <<ls_files, Totals>>
  /\ UNCHANGED <<lines, point_modifications, modified_lines, changes_mn,
                 skipped_mn, in_mn_block, i, in_pos_block, final_lines,
                 changes_pos, skipped_pos, j, run, prev, mainVars>>

\* process_ls_file returns: the totals and the result of the file
BatchReturn ==
  /\ bpc = "call" /\ pc = "done"
  /\ total_changes_mn' = total_changes_mn + changes_mn
  /\ total_changes_pos' = total_changes_pos + changes_pos
  /\ total_skipped_mn' = total_skipped_mn + skipped_mn
  /\ total_skipped_pos' = total_skipped_pos + skipped_pos
  /\ results' = Append(results, Result("OK", changes_mn + changes_pos,
                                       skipped_mn + skipped_pos))
  /\ f' = f + 1
  /\ bpc' = "loop"
  /\ pc' = "idle"
  /\ UNCHANGED ls_files
  /\ UNCHANGED <<lines, point_modifications, modified_lines, changes_mn,
                 skipped_mn, in_mn_block, i, in_pos_block, final_lines,
                 changes_pos, skipped_pos, j, run, prev, mainVars>>

\* the loop is over: the summary is printed
BatchSummary ==
  /\ bpc = "loop" /\ f > Len(ls_files)
  /\ bpc' = "summary"
  /\ UNCHANGED <<ls_files, f, Totals, results>>
  /\ UNCHANGED <<annotatorVars, run, prev, mainVars>>

NextBatch ==
  \/ BatchMkdirRaises \/ BatchReadRaises \/ BatchCall
  \/ MNOpen \/ MNSkip \/ MNRewrite \/ MNEmit \/ Pass1End
  \/ POSOpen \/ POSSkip \/ POSRewrite \/ POSEmit \/ WriteOutput
  \/ BatchWriteRaises \/ BatchReturn \/ BatchSummary

SpecBatch == InitBatch /\ [][NextBatch]_vars

(***************************************************************************)
(* main() before the loop: the directories are chosen (dialogs of          *)
(* select_directories_gui, or sys.argv), the output directory is erased   *)
(* and created, the .ls files are looked up.                               *)
(*                                                                         *)
(* The file system is a small tree: /a with its sub-directory /a/sub, /b,  *)
(* /new and the regular file /notes.txt.                                   *)
(***************************************************************************)
AllDirs == {"/a", "/a/sub", "/b", "/new"}
RegularFiles == {"/notes.txt"}
\* the paths a user can name
Paths == {"/a", "/a/sub/..", "/a/sub", "/b", "/new", "/notes.txt"}
\* Path(p).resolve()
Resolve(p) == IF p = "/a/sub/.." THEN "/a" ELSE p
\* the directories below d
Inside(d) == IF d = "/a" THEN {"/a/sub"} ELSE {}
Parent(p) == IF p = "/a/sub/.." THEN "/a/sub" ELSE p
\* Path(p).exists(), Path(p).is_dir()
PathExists(p) ==
  \/ p \in RegularFiles
  \/ Resolve(p) \in dirs /\ Parent(p) \in dirs
PathIsDir(p) == p \notin RegularFiles /\ Resolve(p) \in dirs /\ Parent(p) \in dirs
\* list(Path(p).rglob('*.ls')) is not empty
HasLsFiles(p) ==
  PathIsDir(p) /\ ls_in \cap ({Resolve(p)} \cup Inside(Resolve(p))) # {}
\* the answers input() can return, and those taken as yes
Responses == {"s", "si", "y", "n", ""}
YesResponses == {"s", "si", "sí", "y", "yes"}

InitMain ==
  /\ AnnotatorIdle /\ BatchIdle
  /\ mpc = "start"
  /\ argv \in SeqsUpTo(Paths, 3)
  /\ tkinter_available \in BOOLEAN
  /\ input_dir = ""
  /\ output_dir = ""
  /\ silent_mode = FALSE
  /\ dirs \in {{"/a", "/a/sub"}, {"/a", "/a/sub", "/b"}}
  /\ ls_in \in SUBSET dirs
  /\ erased = {}

use_gui == Len(argv) = 0
MainFrame == UNCHANGED <<annotatorVars, run, prev, batchVars, argv,
                         tkinter_available>>

\* select_directories_gui: tkinter is missing
GuiUnavailable ==
  /\ mpc = "start" /\ use_gui /\ ~tkinter_available
  /\ mpc' = "exit0"
  /\ UNCHANGED <<input_dir, output_dir, silent_mode, dirs, ls_in, erased>>
  /\ MainFrame

\* askdirectory(mustexist=True) for the input: cancelled
GuiInputCancelled ==
  /\ mpc = "start" /\ use_gui /\ tkinter_available
  /\ mpc' = "exit0"
  /\ UNCHANGED <<input_dir, output_dir, silent_mode, dirs, ls_in, erased>>
  /\ MainFrame

\* askdirectory(mustexist=True) for the input: an existing directory
GuiInputChosen ==
  /\ mpc = "start" /\ use_gui /\ tkinter_available
  /\ \E p \in Paths :
       /\ PathIsDir(p)
       /\ input_dir' = p
  /\ mpc' = "gui_output"
  /\ UNCHANGED <<output_dir, silent_mode, dirs, ls_in, erased>>
  /\ MainFrame

\* askdirectory() for the output: cancelled
GuiOutputCancelled ==
  /\ mpc = "gui_output"
  /\ mpc' = "exit0"
  /\ UNCHANGED <<input_dir, output_dir, silent_mode, dirs, ls_in, erased>>
  /\ MainFrame

\* askdirectory() for the output: a directory, existing or not
GuiOutputChosen ==
  /\ mpc = "gui_output"
  /\ \E p \in Paths \ RegularFiles : output_dir' = p
  /\ mpc' = "gui_check"
  /\ UNCHANGED <<input_dir, silent_mode, dirs, ls_in, erased>>
  /\ MainFrame

\* Path(input_dir).resolve() == Path(output_dir).resolve(): refused
GuiSameDirectory ==
  /\ mpc = "gui_check"
  /\ Resolve(input_dir) = Resolve(output_dir)
  /\ mpc' = "exit0"
  /\ UNCHANGED <<input_dir, output_dir, silent_mode, dirs, ls_in, erased>>
  /\ MainFrame

\* no .ls file below the input directory: refused
GuiNoFiles ==
  /\ mpc = "gui_check"
  /\ Resolve(input_dir) # Resolve(output_dir)
  /\ ~HasLsFiles(input_dir)
  /\ mpc' = "exit0"
  /\ UNCHANGED <<input_dir, output_dir, silent_mode, dirs, ls_in, erased>>
  /\ MainFrame

\* askyesno: the user declines
GuiDeclined ==
  /\ mpc = "gui_check"
  /\ Resolve(input_dir) # Resolve(output_dir)
  /\ HasLsFiles(input_dir)
  /\ mpc' = "exit0"
  /\ UNCHANGED <<input_dir, output_dir, silent_mode, dirs, ls_in, erased>>
  /\ MainFrame

\* askyesno: the user confirms; main() takes the directories, silent_mode = True
GuiConfirmed ==
  /\ mpc = "gui_check"
  /\ Resolve(input_dir) # Resolve(output_dir)
  /\ HasLsFiles(input_dir)
  /\ silent_mode' = TRUE
  /\ mpc' = "clean"
  /\ UNCHANGED <<input_dir, output_dir, dirs, ls_in, erased>>
  /\ MainFrame

\* command line: len(sys.argv) != 3
CliWrongArguments ==
  /\ mpc = "start" /\ ~use_gui
  /\ Len(argv) # 2
  /\ mpc' = "exit1"
  /\ UNCHANGED <<input_dir, output_dir, silent_mode, dirs, ls_in, erased>>
  /\ MainFrame

\* command line: the input directory does not exist or is not a directory
CliInputRejected ==
  /\ mpc = "start" /\ ~use_gui
  /\ Len(argv) = 2
  /\ ~PathExists(argv[1]) \/ ~PathIsDir(argv[1])
  /\ input_dir' = argv[1]
  /\ output_dir' = argv[2]
  /\ mpc' = "exit1"
  /\ UNCHANGED <<silent_mode, dirs, ls_in, erased>>
  /\ MainFrame

\* command line: the directories are taken from sys.argv, silent_mode = False
CliAccepted ==
  /\ mpc = "start" /\ ~use_gui
  /\ Len(argv) = 2
  /\ PathExists(argv[1]) /\ PathIsDir(argv[1])
  /\ input_dir' = argv[1]
  /\ output_dir' = argv[2]
  /\ silent_mode' = FALSE
  /\ mpc' = "clean"
  /\ UNCHANGED <<dirs, ls_in, erased>>
  /\ MainFrame

\* clean_output_directory: the output directory does not exist
CleanNothing ==
  /\ mpc = "clean"
  /\ ~PathExists(output_dir)
  /\ mpc' = "mkdir"
  /\ UNCHANGED <<input_dir, output_dir, silent_mode, dirs, ls_in, erased>>
  /\ MainFrame

\* clean_output_directory: the user does not answer yes to the prompt
CleanDeclined ==
  /\ mpc = "clean"
  /\ PathExists(output_dir) /\ ~silent_mode
  /\ \E response \in Responses : response \notin YesResponses
  /\ mpc' = "exit0"
  /\ UNCHANGED <<input_dir, output_dir, silent_mode, dirs, ls_in, erased>>
  /\ MainFrame

\* after a yes to the prompt, or without prompt when silent
CleanGoesOn ==
  /\ mpc = "clean"
  /\ PathExists(output_dir)
  /\ silent_mode \/ \E response \in Responses : response \in YesResponses

\* clean_output_directory: every file and sub-directory of the output
\* directory is removed
CleanRemoves ==
  /\ CleanGoesOn
  /\ PathIsDir(output_dir)
  /\ LET out == Resolve(output_dir)
     IN  /\ dirs' = dirs \ Inside(out)
         /\ ls_in' = ls_in \ ({out} \cup Inside(out))
         /\ erased' = erased \cup (ls_in \cap ({out} \cup Inside(out)))
  /\ mpc' = "mkdir"
  /\ UNCHANGED <<input_dir, output_dir, silent_mode>>
  /\ MainFrame

\* clean_output_directory: output_dir.iterdir() raises on a regular file
CleanRaises ==
  /\ CleanGoesOn
  /\ ~PathIsDir(output_dir)
  /\ mpc' = "crashed"
  /\ UNCHANGED <<input_dir, output_dir, silent_mode, dirs, ls_in, erased>>
  /\ MainFrame

\* output_dir.mkdir(parents=True, exist_ok=True)
MakeOutputDir ==
  /\ mpc = "mkdir"
  /\ dirs' = dirs \cup {Resolve(output_dir), Parent(output_dir)}
  /\ mpc' = "scan"
  /\ UNCHANGED <<input_dir, output_dir, silent_mode, ls_in, erased>>
  /\ MainFrame

\* list(input_dir.rglob('*.ls')) is empty
ScanNoFiles ==
  /\ mpc = "scan"
  /\ ~HasLsFiles(input_dir)
  /\ mpc' = "exit0"
  /\ UNCHANGED <<input_dir, output_dir, silent_mode, dirs, ls_in, erased>>
  /\ MainFrame

\* the files were found: the loop over them starts
ScanFound ==
  /\ mpc = "scan"
  /\ HasLsFiles(input_dir)
  /\ mpc' = "loop"
  /\ UNCHANGED <<input_dir, output_dir, silent_mode, dirs, ls_in, erased>>
  /\ MainFrame

NextMain ==
  \/ GuiUnavailable \/ GuiInputCancelled \/ GuiInputChosen
  \/ GuiOutputCancelled \/ GuiOutputChosen \/ GuiSameDirectory
  \/ GuiNoFiles \/ GuiDeclined \/ GuiConfirmed
  \/ CliWrongArguments \/ CliInputRejected \/ CliAccepted
  \/ CleanNothing \/ CleanDeclined \/ CleanRemoves \/ CleanRaises
  \/ MakeOutputDir \/ ScanNoFiles \/ ScanFound

SpecMain == InitMain /\ [][NextMain]_vars

(***************************************************************************)
(* Notions of the specification, defined on the document alone.            *)
(***************************************************************************)
\* line k lies in an active section opened by marker: the last line at or
\* before k that starts with '/' is the marker line itself
Active(doc, k, marker) ==
  \E m \in 1..k :
     /\ StripEq(doc[m], marker)
     /\ \A n \in (m+1)..k : ~StartsSlash(doc[n])
ActiveMN(doc, k) == Active(doc, k, "/MN")
ActivePOS(doc, k) == Active(doc, k, "/POS")

\* a comment line as the specification describes it: an optional numeric
\* label, a colon, !T, free text, a hyphen, digits and a semicolon
HasLabel(line) == Len(line) >= 1 /\ line[1] \in Nums
SpecComment(line) ==
  LET body == IF HasLabel(line) THEN Tail(line) ELSE line
  IN  /\ Len(body) >= 5
      /\ body[1] = ":" /\ body[2] = "!T"
      /\ body[Len(body) - 2] = "-" /\ body[Len(body) - 1] \in Nums
      /\ body[Len(body)] = ";"
\* the trailing digit run of a comment line
SpecId(line) == line[Len(line) - 1]
\* a movement line: L or J followed by P[<index>]; its index is that of the
\* first such occurrence
SpecMoveAt(line, m) ==
  /\ m + 3 <= Len(line)
  /\ line[m] \in {"L", "J"} /\ line[m+1] = "P[" /\ line[m+2] \in Nums
  /\ line[m+3] = "]"
SpecMovement(line) == \E m \in 1..Len(line) : SpecMoveAt(line, m)
SpecIndex(line) ==
  line[(CHOOSE m \in 1..Len(line) :
          SpecMoveAt(line, m) /\ \A c \in 1..(m-1) : ~SpecMoveAt(line, c)) + 2]
\* the line carries P[<index>:<identifier>] (bare) / P[<index>:"<identifier>"]
HasBare(line, n, id) ==
  \E m \in 1..Len(line) :
     m + 4 <= Len(line) /\ SubSeq(line, m, m + 4) = <<"P[", n, ":", id, "]">>
HasQuoted(line, n, id) ==
  \E m \in 1..Len(line) :
     m + 6 <= Len(line)
       /\ SubSeq(line, m, m + 6) = <<"P[", n, ":", "\"", id, "\"", "]">>
\* the first P[...] of the line has no colon: the line is not yet annotated
Unannotated(line) ==
  \E b \in 1..Len(line) :
     /\ line[b] = "P["
     /\ \A c \in 1..(b-1) : line[c] # "P["
     /\ \E e \in (b+2)..Len(line) :
          line[e] = "]" /\ \A c \in (b+1)..(e-1) : line[c] \notin {"]", ":"}
\* the positions k of labelled comment lines in an active /MN section that
\* are followed by an unannotated movement line on point index n
Pairings(doc, n) ==
  {k \in 1..(Len(doc) - 1) :
     /\ ActiveMN(doc, k)
     /\ HasLabel(doc[k]) /\ SpecComment(doc[k])
     /\ SpecMovement(doc[k+1]) /\ Unannotated(doc[k+1])
     /\ SpecIndex(doc[k+1]) = n}
AllPairings(doc) == UNION {Pairings(doc, n) : n \in Nums}

Finished == pc = "done"
\* the point indices and the identifiers that occur in the documents
PointNums == {"12", "5"}
SpotIds == {"00042", "7", "42"}

(***************************************************************************)
(* C1.  Idempotence with skip accounting: a second run on the output of a  *)
(* first run changes no line, reports changed-MN = 0 and changed-POS = 0,  *)
(* and counts every pair the first run annotated as skipped.               *)
(***************************************************************************)
C1_IdempotenceWithSkips ==
  (Finished /\ run = 2) =>
     /\ final_lines = lines
     /\ changes_mn = 0 /\ changes_pos = 0
     /\ skipped_mn >= prev.stats.changes_mn
     /\ skipped_pos >= prev.stats.changes_pos

(***************************************************************************)
(* C2.  The five-line example of the specification.  As claimed: the       *)
(* movement line becomes P[12:42], the declaration P[12:"42"], with        *)
(* counts 1, 1, 0, 0.                                                      *)
(***************************************************************************)
C2_ExampleAsClaimed ==
  (Finished /\ run = 1 /\ lines = SpecExample) =>
     /\ final_lines =
          <<LineMN, CommentA,
            <<"2", ":", "L", "P[", "12", ":", "42", "]", "100mm/sec", "CNT100">>,
            LinePOS,
            <<"P[", "12", ":", "\"", "42", "\"", "]", "{">> >>
     /\ Stats = [changes_mn |-> 1, changes_pos |-> 1,
                 skipped_mn |-> 0, skipped_pos |-> 0]
(* C2 as amended: the digit run of the comment is inserted as it stands,   *)
(* leading zeros included: P[12:00042] (bare) and P[12:"00042"] (quoted),  *)
(* with counts 1, 1, 0, 0.                                                 *)
C2_ExampleVerbatim ==
  (Finished /\ run = 1 /\ lines = SpecExample) =>
     /\ final_lines =
          <<LineMN, CommentA,
            <<"2", ":", "L", "P[", "12", ":", "00042", "]", "100mm/sec", "CNT100">>,
            LinePOS,
            <<"P[", "12", ":", "\"", "00042", "\"", "]", "{">> >>
     /\ Stats = [changes_mn |-> 1, changes_pos |-> 1,
                 skipped_mn |-> 0, skipped_pos |-> 0]
C2_Witness == Finished /\ run = 1 /\ lines = SpecExample /\ changes_pos = 1

(***************************************************************************)
(* C3.  Line-count preservation: pass 1 has emitted exactly the lines it   *)
(* has advanced over, pass 2 one line per line, the output has as many     *)
(* lines as the input, and output line k is input line k or a rewrite of   *)
(* it.                                                                     *)
(***************************************************************************)
DerivedFrom(out, in) ==
  \/ out = in
  \/ \E n \in PointNums, id \in SpotIds :
       \/ out = SubFrom(in, <<"P[", n, "]">>, <<"P[", n, ":", id, "]">>, 1)
       \/ out = SubFrom(in, <<"P[", n, "]", "{">>,
                        <<"P[", n, ":", "\"", id, "\"", "]", "{">>, 1)
C3_LineCount ==
  /\ pc = "pass1" => Len(modified_lines) = i - 1
  /\ pc \in {"pass2", "done"} => Len(modified_lines) = Len(lines)
  /\ pc = "pass2" => Len(final_lines) = j - 1
  /\ Finished =>
       /\ Len(final_lines) = Len(lines)
       /\ \A k \in 1..Len(lines) : DerivedFrom(final_lines[k], lines[k])
\* a run with an annotated pair whose last line is a comment line in /MN
C3_Witness ==
  /\ Finished /\ run = 1 /\ changes_mn > 0
  /\ ActiveMN(lines, Len(lines)) /\ SpecComment(lines[Len(lines)])
  /\ Len(final_lines) = Len(lines)

(***************************************************************************)
(* C4.  Round trip: an output line differs from the input line at the same *)
(* position only if it is (i) an unannotated movement line in an active    *)
(* /MN section right after a comment line, or (ii) an unannotated line in  *)
(* an active /POS section containing P[<index>]{ for an index of the       *)
(* mapping.  Marker lines, comment lines and lines outside both sections   *)
(* are never altered.                                                      *)
(***************************************************************************)
CaseMN(doc, k) ==
  /\ k > 1 /\ ActiveMN(doc, k)
  /\ SpecComment(doc[k-1])
  /\ SpecMovement(doc[k]) /\ Unannotated(doc[k])
CasePOS(doc, k) ==
  /\ ActivePOS(doc, k) /\ Unannotated(doc[k])
  /\ \E n \in DictKeys(point_modifications) :
       \E m \in 1..Len(doc[k]) :
          m + 3 <= Len(doc[k]) /\ SubSeq(doc[k], m, m + 3) = <<"P[", n, "]", "{">>
LastPairedId(doc, n) == SpecId(doc[Max(Pairings(doc, n))])
C5_Embedded ==
  Finished =>
    \A k \in 1..Len(final_lines) :
       \A n \in PointNums, id \in SpotIds :
          (HasQuoted(final_lines[k], n, id) /\ ~HasQuoted(lines[k], n, id))
            => /\ Pairings(lines, n) # {}
               /\ id = LastPairedId(lines, n)
C5_ReadOnly ==
  [][pc = "pass2" => point_modifications' = point_modifications]_vars
C5_MappingConsistency == []C5_Embedded /\ C5_ReadOnly
\* a declaration was rewritten for an index paired twice, with two identifiers
C5_Witness ==
  /\ Finished /\ run = 1
  /\ \E n \in PointNums :
       /\ \E k1, k2 \in Pairings(lines, n) : SpecId(lines[k1]) # SpecId(lines[k2])
       /\ \E k \in 1..Len(lines) :
            /\ lines[k] # final_lines[k]
            /\ HasQuoted(final_lines[k], n, LastPairedId(lines, n))

(***************************************************************************)
(* C7.  A comment line in an active /MN section whose next line is not a   *)
(* movement line (or is missing) is emitted unchanged, changes no counter  *)
(* and no mapping entry, and advances the scan by one line; in comment A,  *)
(* comment B, movement M the movement gets B's identifier.                 *)
(***************************************************************************)
C7_Step ==
  [][(/\ pc = "pass1" /\ i <= Len(lines)
      /\ ActiveMN(lines, i) /\ SpecComment(lines[i])
      /\ (i = Len(lines) \/ ~SpecMovement(lines[i+1])))
     => /\ i' = i + 1
        /\ modified_lines' = Append(modified_lines, lines[i])
        /\ UNCHANGED <<changes_mn, skipped_mn, point_modifications>>]_vars
ABM(doc, k) ==
  /\ k + 2 <= Len(doc) /\ ActiveMN(doc, k)
  /\ SpecComment(doc[k]) /\ HasLabel(doc[k])
  /\ SpecComment(doc[k+1]) /\ HasLabel(doc[k+1])
  /\ SpecMovement(doc[k+2]) /\ Unannotated(doc[k+2])
C7_Example ==
  Finished =>
    \A k \in 1..Len(lines) :
       ABM(lines, k) =>
         /\ final_lines[k] = lines[k] /\ final_lines[k+1] = lines[k+1]
         /\ HasBare(final_lines[k+2], SpecIndex(lines[k+2]), SpecId(lines[k+1]))
C7_CommentWithoutMovement == []C7_Example /\ C7_Step
\* comment A, comment B, movement M with different identifiers in A and B
C7_Witness ==
  /\ Finished /\ run = 1
  /\ \E k \in 1..Len(lines) :
       ABM(lines, k) /\ SpecId(lines[k]) # SpecId(lines[k+1])

(***************************************************************************)
(* C8.  As claimed: the numeric label of a comment line is optional, a     *)
(* comment line without label followed by an unannotated movement line is  *)
(* paired like a labelled one.                                             *)
(***************************************************************************)
PairedAt(k) ==
  /\ final_lines[k] = lines[k]
  /\ HasBare(final_lines[k+1], SpecIndex(lines[k+1]), SpecId(lines[k]))
CommentThenMove(doc, k) ==
  /\ k + 1 <= Len(doc) /\ ActiveMN(doc, k)
  /\ SpecComment(doc[k])
  /\ SpecMovement(doc[k+1]) /\ Unannotated(doc[k+1])
C8_LabelOptional ==
  (Finished /\ run = 1) =>
    \A k \in 1..Len(lines) : CommentThenMove(lines, k) => PairedAt(k)
(* C8 as amended: the numeric label is required.  A labelled comment line  *)
(* followed by an unannotated movement line is paired; a comment line      *)
(* without label is not recognised: it and the line after it are emitted   *)
(* unchanged.                                                              *)
C8_LabelRequired ==
  (Finished /\ run = 1) =>
    \A k \in 1..Len(lines) :
       CommentThenMove(lines, k) =>
         IF HasLabel(lines[k]) THEN PairedAt(k)
         ELSE final_lines[k] = lines[k] /\ final_lines[k+1] = lines[k+1]
\* a comment line without label, followed by an unannotated movement line
C8_Witness ==
  /\ Finished /\ run = 1
  /\ \E k \in 1..Len(lines) :
       /\ CommentThenMove(lines, k) /\ ~HasLabel(lines[k])
       /\ final_lines[k+1] = lines[k+1]

(***************************************************************************)
(* C10.  The mapping holds exactly the point indices whose /MN movement    *)
(* line was rewritten in this run; changed-POS + skipped-POS > 0 implies   *)
(* changed-MN > 0; a file without a pair to annotate has every line        *)
(* emitted unchanged and changed-POS = skipped-POS = 0.                    *)
(***************************************************************************)
RewrittenMN ==
  {SpecIndex(lines[k]) :
     k \in {m \in 1..Len(modified_lines) : modified_lines[m] # lines[m]}}
C10_MappingFromRewrites ==
  /\ pc \in {"pass2", "done"} => DictKeys(point_modifications) = RewrittenMN
  /\ pc \in {"pass2", "done"} =>
       (changes_pos + skipped_pos > 0 => changes_mn > 0)
  /\ (Finished /\ AllPairings(lines) = {}) =>
       /\ final_lines = lines
       /\ changes_pos = 0 /\ skipped_pos = 0
\* every /MN pair is already annotated, a declaration is not
C10_Witness ==
  /\ Finished /\ run = 1 /\ skipped_mn > 0 /\ changes_mn = 0
  /\ \E k \in 1..Len(lines) :
       ActivePOS(lines, k) /\ lines[k] = Decl12 /\ final_lines[k] = Decl12

(***************************************************************************)
(* C6.  Per-file error isolation: when the loop is over, every file of the *)
(* list has its result, a file with a file-access fault has an error       *)
(* result and adds nothing to the totals, every other file was processed.  *)
(***************************************************************************)
RECURSIVE SumModificados(_)
SumModificados(rs) ==
  IF rs = <<>> THEN 0 ELSE rs[1].modificados + SumModificados(Tail(rs))
C6_ErrorIsolation ==
  bpc \in {"summary", "crashed"} =>
     /\ Len(results) = Len(ls_files)
     /\ \A k \in 1..Len(results) :
          /\ results[k].archivo = k
          /\ results[k].estado = IF ls_files[k].fault = "none" THEN "OK" ELSE "ERROR"
          /\ ls_files[k].fault # "none" => results[k].modificados = 0
     /\ total_changes_mn + total_changes_pos = SumModificados(results)

(***************************************************************************)
(* C9.  A run never erases files of the input directory: no .ls file in    *)
(* or below the input directory is removed by clean_output_directory, in   *)
(* the GUI mode and in the command-line mode.                              *)
(***************************************************************************)
C9_InputNeverErased ==
  input_dir # "" =>
     erased \cap ({Resolve(input_dir)} \cup Inside(Resolve(input_dir))) = {}

====
